---- MODULE Spec2Model ----
(***************************************************************************)
(* src/provideCompletionItems.ts of tabnine-vscode as a state machine.     *)
(*                                                                         *)
(* Strings are sequences of one-character strings.  An optional value      *)
(* (undefined / null / a missing property) is a sequence of length 0 or 1: *)
(* None is <<>>, Some(v) is <<v>>.                                          *)
(***************************************************************************)
EXTENDS Integers, Sequences, FiniteSets, TLC

VARIABLES document, configuration, capabilities, isTabNineAutoImportEnabled, inv

vars == <<document, configuration, capabilities, isTabNineAutoImportEnabled, inv>>

\* ------------------------------------------------------------ bounds
\* Number of invocations that may overlap (one per keystroke).
NumInvocations == 2
\* Longest list of patterns in a tabnine.disable_*_regex setting.
MaxPatterns == 2
\* Longest results list of a response.
MaxResults == 2
\* Longest user_message list of a response.
MaxMessages == 2
\* Longest generated new_prefix / new_suffix of a candidate.
MaxText == 3

\* ------------------------------------------------------------ constants
\* ./consts is not part of src/; the window budget is scaled down so that
\* windows clamp at both ends of the sample documents.
CHAR_LIMIT == 3
MAX_NUM_RESULTS == 5
DEFAULT_DETAIL == <<"T", "a", "b", "N", "i", "n", "e">>
\* position.with({ character: 500 })
LINE_SLICE_END == 500

None == <<>>
Some(v) == <<v>>
NL == "\n"
BACKSLASH == "\\"
DOLLAR == "$"

Min(a, b) == IF a < b THEN a ELSE b
Max(a, b) == IF a > b THEN a ELSE b

\* ------------------------------------------------------------ strings
\* String.prototype.endsWith
endsWith(s, suffix) ==
  /\ Len(suffix) <= Len(s)
  /\ SubSeq(s, Len(s) - Len(suffix) + 1, Len(s)) = suffix

\* String.prototype.includes
includes(s, sub) ==
  \E i \in 1..(Len(s) - Len(sub) + 1) : SubSeq(s, i, i + Len(sub) - 1) = sub

\* ------------------------------------------------------------ RegExp
\* The patterns of the model are sequences of atoms: a literal character,
\* "." (any character but a line break), or a leading "*", which is a
\* syntax error ("Nothing to repeat").
RegExpThrows(r) == Len(r) > 0 /\ r[1] = "*"

AtomMatches(a, c) == IF a = "." THEN c # NL ELSE a = c

\* new RegExp(r).test(s), r a valid pattern: an unanchored search.
test(r, s) ==
  \E i \in 1..(Len(s) - Len(r) + 1) :
    \A j \in 1..Len(r) : AtomMatches(r[j], s[i + j - 1])

\* ------------------------------------------------------------ vscode.TextDocument
\* A document is [fileName, lines]; lines is a non-empty sequence of
\* strings without line breaks, joined by "\n".  Positions are zero-based
\* [line, character].
RECURSIVE LineStart(_, _)
\* Offset of the first character of zero-based line l.
LineStart(lines, l) ==
  IF l = 0 THEN 0 ELSE LineStart(lines, l - 1) + Len(lines[l]) + 1

TextLength(lines) == LineStart(lines, Len(lines) - 1) + Len(lines[Len(lines)])

RECURSIVE FullText(_)
FullText(lines) ==
  IF Len(lines) = 1 THEN lines[1]
  ELSE FullText(SubSeq(lines, 1, Len(lines) - 1)) \o <<NL>> \o lines[Len(lines)]

\* TextDocument.validatePosition: clamp into the document.
validatePosition(lines, pos) ==
  IF pos.line >= Len(lines)
  THEN [line |-> Len(lines) - 1, character |-> Len(lines[Len(lines)])]
  ELSE [line |-> pos.line,
        character |-> Min(pos.character, Len(lines[pos.line + 1]))]

offsetAt(lines, pos) ==
  LET p == validatePosition(lines, pos)
  IN  LineStart(lines, p.line) + p.character

positionAt(lines, offset) ==
  LET o == Max(0, Min(offset, TextLength(lines)))
      l == CHOOSE k \in 0..(Len(lines) - 1) :
             /\ LineStart(lines, k) <= o
             /\ k + 1 < Len(lines) => LineStart(lines, k + 1) > o
  IN  [line |-> l, character |-> o - LineStart(lines, l)]

\* TextDocument.getText(new Range(start, end)), start not after end.
getText(lines, start, end) ==
  SubSeq(FullText(lines), offsetAt(lines, start) + 1, offsetAt(lines, end))

\* TextDocument.lineAt(position) throws for a line outside the document.
lineAtThrows(lines, pos) == pos.line < 0 \/ pos.line >= Len(lines)

\* Position.translate(0, delta) throws when the character becomes negative.
translateThrows(pos, delta) == pos.character + delta < 0

translate(pos, delta) ==
  [line |-> pos.line, character |-> pos.character + delta]

\* ------------------------------------------------------------ completionIsAllowed
\* One "for (const r of list)" loop: the first pattern that fails to compile
\* throws, the first that matches ends the loop.
RECURSIVE testEach(_, _, _)
testEach(list, i, text) ==
  IF i > Len(list) THEN "none"
  ELSE IF RegExpThrows(list[i]) THEN "throw"
  ELSE IF test(list[i], text) THEN "match"
  ELSE testEach(list, i + 1, text)

\* configuration.get(...) === undefined becomes [].
orEmpty(setting) == IF setting = None THEN <<>> ELSE setting[1]

\* A faulty variant: the line patterns see the whole line.
lineSlice_wholeLine(lines, position) == lines[position.line + 1]

\* The slice of the cursor's line the line patterns are tested against.
lineSlice(lines, position) ==
  getText(lines,
          [line |-> position.line, character |-> 0],
          [line |-> position.line, character |-> LINE_SLICE_END])

\* "true", "false" or "throw".
completionIsAllowed(doc, position, config) ==
  LET onLine == testEach(orEmpty(config.disable_line_regex), 1,
                         lineSlice(doc.lines, position))
      onFile == testEach(orEmpty(config.disable_file_regex), 1, doc.fileName)
  IN  IF onLine = "throw" THEN "throw"
      ELSE IF onLine = "match" THEN "false"
      ELSE IF onFile = "throw" THEN "throw"
      ELSE IF onFile = "match" THEN "false"
      ELSE "true"

\* A faulty variant: the two capabilities are consulted in the other order.
getMaxResults_twoFirst(caps) ==
  IF "SUGGESTIONS_TWO" \in caps THEN 2
  ELSE IF "SUGGESTIONS_SINGLE" \in caps THEN 1
  ELSE MAX_NUM_RESULTS

\* ------------------------------------------------------------ getMaxResults
getMaxResults(caps) ==
  IF "SUGGESTIONS_SINGLE" \in caps THEN 1
  ELSE IF "SUGGESTIONS_TWO" \in caps THEN 2
  ELSE MAX_NUM_RESULTS

\* A faulty variant: the start of the window is not clamped at 0.
requestWindow_unclamped(doc, position) ==
  LET offset == offsetAt(doc.lines, position)
  IN  [offset |-> offset,
       before_start_offset |-> offset - CHAR_LIMIT,
       after_end_offset |-> offset + CHAR_LIMIT,
       before_start |-> positionAt(doc.lines, offset - CHAR_LIMIT),
       after_end |-> positionAt(doc.lines, offset + CHAR_LIMIT)]

\* ------------------------------------------------------------ the request
\* Lines 24-36: the window around the cursor and the request built from it.
requestWindow(doc, position) ==
  LET offset == offsetAt(doc.lines, position)
      before_start_offset == Max(0, offset - CHAR_LIMIT)
      after_end_offset == offset + CHAR_LIMIT
  IN  [offset |-> offset,
       before_start_offset |-> before_start_offset,
       after_end_offset |-> after_end_offset,
       before_start |-> positionAt(doc.lines, before_start_offset),
       after_end |-> positionAt(doc.lines, after_end_offset)]

autocompleteRequest(doc, position, caps) ==
  LET w == requestWindow(doc, position)
  IN  [filename |-> doc.fileName,
       before |-> getText(doc.lines, w.before_start, position),
       after |-> getText(doc.lines, position, w.after_end),
       region_includes_beginning |-> w.before_start_offset = 0,
       region_includes_end |->
         offsetAt(doc.lines, w.after_end) # w.after_end_offset,
       max_num_results |-> getMaxResults(caps)]

\* ------------------------------------------------------------ escaping
RECURSIVE escapeTabStopSign(_)
\* value.replace(/\$/g, "\\$")
escapeTabStopSign(value) ==
  IF value = <<>> THEN <<>>
  ELSE (IF Head(value) = DOLLAR THEN <<BACKSLASH, DOLLAR>> ELSE <<Head(value)>>)
       \o escapeTabStopSign(Tail(value))

RECURSIVE snippetEscape(_)
\* SnippetString.appendText escapes what it appends itself:
\* value.replace(/\$|}|\\/g, "\\$&")
snippetEscape(value) ==
  IF value = <<>> THEN <<>>
  ELSE (IF Head(value) \in {DOLLAR, "}", BACKSLASH}
        THEN <<BACKSLASH, Head(value)>> ELSE <<Head(value)>>)
       \o snippetEscape(Tail(value))

\* SnippetString.appendText(text) on a snippet body.
appendText(body, text) == body \o snippetEscape(text)

\* SnippetString.appendTabstop(n), n a single digit.
appendTabstop(body, n) == body \o <<DOLLAR, ToString(n)>>

\* Lines 108-110 and 133-137: the snippet body of one entry.
insertTextOf(entry) ==
  LET body == escapeTabStopSign(entry.new_prefix)
  IN  IF entry.new_suffix # <<>>
      THEN appendText(appendTabstop(body, 0), escapeTabStopSign(entry.new_suffix))
      ELSE body

\* ------------------------------------------------------------ documentation
MARKDOWN == <<"m", "a", "r", "k", "d", "o", "w", "n">>

\* A documentation value is [isString, kind, value]: a bare string
\* (isString) or an object with an optional kind property.
isMarkdownStringSpec(x) == ~x.isString /\ x.kind # None /\ x.kind[1] # <<>>

formatDocumentation(documentation) ==
  IF isMarkdownStringSpec(documentation)
  THEN IF documentation.kind[1] = MARKDOWN
       THEN [markdown |-> TRUE, isObject |-> FALSE, value |-> documentation.value]
       ELSE [markdown |-> FALSE, isObject |-> FALSE, value |-> documentation.value]
  ELSE [markdown |-> FALSE, isObject |-> ~documentation.isString,
        value |-> documentation.value]

\* JavaScript truthiness of entry.kind (a number or undefined) and of
\* entry.documentation (a string, an object or undefined).
truthyKind(kind) == kind # None /\ kind[1] # 0
truthyDocumentation(d) == d # None /\ (d[1].isString => d[1].value # <<>>)

\* ------------------------------------------------------------ showFew
\* "true", "false" or "throw" (position.translate, document.lineAt).
showFew(response, lines, position) ==
  IF \E i \in 1..Len(response.results) :
       \/ truthyKind(response.results[i].kind)
       \/ truthyDocumentation(response.results[i].documentation)
  THEN "false"
  ELSE IF translateThrows(position, -Len(response.old_prefix)) THEN "throw"
  ELSE LET leftPoint == translate(position, -Len(response.old_prefix))
       IN  IF lineAtThrows(lines, leftPoint) THEN "throw"
           ELSE LET tail == getText(lines,
                                    [line |-> leftPoint.line, character |-> 0],
                                    leftPoint)
                IN  IF endsWith(tail, <<".">>) \/ endsWith(tail, <<":", ":">>)
                    THEN "true" ELSE "false"

\* ------------------------------------------------------------ detail message
RECURSIVE appendMessages(_, _, _)
\* Lines 46-51: the loop over response.user_message ?? [].
appendMessages(msgs, i, detailMessage) ==
  IF i > Len(msgs) THEN detailMessage
  ELSE appendMessages(msgs, i + 1,
         (IF detailMessage # <<>> THEN detailMessage \o <<NL>> ELSE detailMessage)
         \o msgs[i])

\* Lines 44-54.
detailMessageOf(user_message) ==
  LET detailMessage == appendMessages(orEmpty(user_message), 1, <<>>)
  IN  IF detailMessage = <<>> THEN DEFAULT_DETAIL ELSE detailMessage

PROJECT_NOTICE ==
  <<"Y", "o", "u", "r", " ", "p", "r", "o", "j", "e", "c", "t", " ",
    "c", "o", "n", "t", "a", "i", "n", "s">>

\* ------------------------------------------------------------ makeCompletionItem
\* Throws when a translate leaves the line on the left, or when old_suffix
\* is missing from the entry (undefined.length).
makeCompletionItemThrows(position, old_prefix, entry) ==
  \/ translateThrows(position, -Len(old_prefix))
  \/ entry.old_suffix = None

itemDetail(entry, detailMessage) ==
  IF /\ entry.detail # None
     /\ entry.detail[1] # <<>>
     /\ (detailMessage = DEFAULT_DETAIL \/ includes(detailMessage, PROJECT_NOTICE))
  THEN entry.detail[1]
  ELSE detailMessage

makeCompletionItem(index, position, detailMessage, old_prefix, entry, results, caps, autoImport) ==
  \* "sparkles" stands for the one character U+2728 of the label marker.
  [label |-> (IF "ON_BOARDING_CAPABILITY" \in caps
              THEN <<"sparkles", " ">> ELSE <<>>) \o entry.new_prefix,
   sortText |-> <<0, index % 65536>>,
   insertText |-> insertTextOf(entry),
   filterText |-> entry.new_prefix,
   preselect |-> (index = 0),
   kind |-> entry.kind,
   range |-> [start |-> translate(position, -Len(old_prefix)),
              end |-> translate(position, Len(entry.old_suffix[1]))],
   command |-> IF autoImport
               THEN Some([currentCompletion |-> entry.new_prefix,
                          completions |-> results,
                          position |-> position])
               ELSE None,
   documentation |-> IF truthyDocumentation(entry.documentation)
                     THEN Some(formatDocumentation(entry.documentation[1]))
                     ELSE None,
   detail |-> itemDetail(entry, detailMessage)]

\* ------------------------------------------------------------ synthesis
\* An outcome of a piece of the try block: whether it threw, what it
\* returned (None: "return;"), and completionList as it stood.
Returned(value, list) ==
  [threw |-> FALSE, returned |-> value, completionList |-> list]
Threw(list) == [threw |-> TRUE, returned |-> None, completionList |-> list]

RECURSIVE pushItems_lateBreak(_, _, _, _, _, _, _, _)
\* A faulty variant: the limit is compared with the index before it is incremented.
pushItems_lateBreak(index, limit, completionList, response, position, detailMessage, caps, autoImport) ==
  IF index >= Len(response.results) THEN Returned(None, completionList)
  ELSE LET entry == response.results[index + 1]
       IN  IF makeCompletionItemThrows(position, response.old_prefix, entry)
           THEN Threw(completionList)
           ELSE LET item == makeCompletionItem(index, position, detailMessage,
                              response.old_prefix, entry, response.results,
                              caps, autoImport)
                    pushed == Append(completionList, item)
                IN  IF limit # None /\ index >= limit[1]
                    THEN Returned(None, pushed)
                    ELSE pushItems_lateBreak(index + 1, limit, pushed, response,
                                             position, detailMessage, caps,
                                             autoImport)

RECURSIVE pushItems(_, _, _, _, _, _, _, _)
\* Lines 60-77: the loop over response.results, index counted from 0.
pushItems(index, limit, completionList, response, position, detailMessage, caps, autoImport) ==
  IF index >= Len(response.results) THEN Returned(None, completionList)
  ELSE LET entry == response.results[index + 1]
       IN  IF makeCompletionItemThrows(position, response.old_prefix, entry)
           THEN Threw(completionList)
           ELSE LET item == makeCompletionItem(index, position, detailMessage,
                              response.old_prefix, entry, response.results,
                              caps, autoImport)
                    pushed == Append(completionList, item)
                IN  IF limit # None /\ index + 1 >= limit[1]
                    THEN Returned(None, pushed)
                    ELSE pushItems(index + 1, limit, pushed, response, position,
                                   detailMessage, caps, autoImport)

\* Lines 38-80: what the try block does once autocomplete has answered.
afterResponse(answer, lines, position, caps, autoImport) ==
  IF answer = None THEN Returned(None, <<>>)
  ELSE LET response == answer[1]
       IN  IF Len(response.results) = 0
           THEN Returned(Some([items |-> <<>>, isIncomplete |-> TRUE]), <<>>)
           ELSE LET few == showFew(response, lines, position)
                IN  IF few = "throw" THEN Threw(<<>>)
                    ELSE LET loop == pushItems(0,
                                       IF few = "true" THEN Some(1) ELSE None,
                                       <<>>, response, position,
                                       detailMessageOf(response.user_message),
                                       caps, autoImport)
                         IN  IF loop.threw THEN loop
                             ELSE Returned(Some([items |-> loop.completionList,
                                                 isIncomplete |-> TRUE]),
                                           loop.completionList)

\* A faulty variant: the catch returns the items built before the error.
tryCatch_keepsList(outcome) ==
  IF outcome.threw
  THEN [result |-> Some([items |-> outcome.completionList, isIncomplete |-> TRUE]),
        raised |-> TRUE, propagated |-> FALSE]
  ELSE [result |-> outcome.returned, raised |-> FALSE, propagated |-> FALSE]

\* Lines 19, 81-85: the try/catch around the whole function.  The catch
\* logs and falls through to "return;".
tryCatch(outcome) ==
  IF outcome.threw
  THEN [result |-> None, raised |-> TRUE, propagated |-> FALSE]
  ELSE [result |-> outcome.returned, raised |-> FALSE, propagated |-> FALSE]

\* ------------------------------------------------------------ inputs
RECURSIVE SeqsUpTo(_, _)
\* The sequences over S of length at most n.
SeqsUpTo(S, n) ==
  IF n = 0 THEN {<<>>}
  ELSE LET shorter == SeqsUpTo(S, n - 1)
       IN  shorter \cup {Append(q, x) : q \in shorter, x \in S}

\* The cursors the editor may hand over for a document: every position of
\* a short line; the start, the end and column 500 of a long one.
CursorsOf(lines) ==
  UNION {{[line |-> l, character |-> c] :
            c \in {k \in 0..Len(lines[l + 1]) :
                     Len(lines[l + 1]) > 8 =>
                       k \in {0, LINE_SLICE_END, Len(lines[l + 1])}}} :
         l \in 0..(Len(lines) - 1)}

\* ------------------------------------------------------------ state
Procs == 1..NumInvocations

Idle ==
  [pc |-> "idle",
   position |-> [line |-> 0, character |-> 0],
   observed |-> <<>>,
   window |-> None,
   request |-> None,
   answered |-> FALSE,
   response |-> None,
   few |-> "unset",
   detailMessage |-> None,
   result |-> None,
   raised |-> FALSE,
   propagated |-> FALSE]

\* The state before any invocation; the editor's document, the settings
\* and the capabilities are drawn from the given sets.
InitOver(Documents, Configurations, Capabilities, AutoImport) ==
  /\ document \in Documents
  /\ configuration \in Configurations
  /\ capabilities \in Capabilities
  /\ isTabNineAutoImportEnabled \in AutoImport
  /\ inv = [p \in Procs |-> Idle]

Finish(p, locals, outcome) ==
  LET caught == tryCatch(outcome)
  IN  inv' = [inv EXCEPT ![p] =
                [locals EXCEPT !.pc = "done",
                               !.result = caught.result,
                               !.raised = caught.raised,
                               !.propagated = caught.propagated]]

\* Lines 19-36: the editor calls provideCompletionItems; the function runs
\* up to the await of autocomplete, or returns before it.
Invoke(p) ==
  /\ inv[p].pc = "idle"
  /\ \E position \in CursorsOf(document.lines) :
       LET allowed == completionIsAllowed(document, position, configuration)
           entered == [inv[p] EXCEPT !.position = position,
                                     !.observed = document.lines]
       IN  IF allowed = "throw" THEN Finish(p, entered, Threw(<<>>))
           ELSE IF allowed = "false" THEN Finish(p, entered, Returned(None, <<>>))
           ELSE inv' = [inv EXCEPT ![p] =
                  [entered EXCEPT
                     !.pc = "awaiting",
                     !.window = Some(requestWindow(document, position)),
                     !.request = Some(autocompleteRequest(document, position,
                                                          capabilities))]]
  /\ UNCHANGED <<document, configuration, capabilities, isTabNineAutoImportEnabled>>

\* Lines 38-85: autocomplete resolves with a response or with null and the
\* function runs to its end, on the document as it is now.
Resolve(p, Answers) ==
  /\ inv[p].pc = "awaiting"
  /\ \E answer \in Answers :
       LET synthesized == answer # None /\ Len(answer[1].results) # 0
           few == IF synthesized
                  THEN showFew(answer[1], document.lines, inv[p].position)
                  ELSE "unset"
           locals == [inv[p] EXCEPT
                        !.answered = TRUE,
                        !.response = answer,
                        !.few = few,
                        !.detailMessage =
                          IF synthesized
                          THEN Some(detailMessageOf(answer[1].user_message))
                          ELSE None]
       IN  Finish(p, locals,
                  afterResponse(answer, document.lines, inv[p].position,
                                capabilities, isTabNineAutoImportEnabled))
  /\ UNCHANGED <<document, configuration, capabilities, isTabNineAutoImportEnabled>>

\* Lines 29, 81-85: the awaited autocomplete rejects.
Reject(p) ==
  /\ inv[p].pc = "awaiting"
  /\ Finish(p, inv[p], Threw(<<>>))
  /\ UNCHANGED <<document, configuration, capabilities, isTabNineAutoImportEnabled>>

\* The user edits the document (vscode.TextDocument is live: the object the
\* function holds shows the new text).  An edit before any invocation is
\* another initial document, one after the last is seen by nobody.
Edit(Texts) ==
  /\ \E p \in Procs : inv[p].pc = "awaiting"
  /\ \E lines \in Texts :
       /\ lines # document.lines
       /\ document' = [document EXCEPT !.lines = lines]
  /\ UNCHANGED <<configuration, capabilities, isTabNineAutoImportEnabled, inv>>

\* ------------------------------------------------------------ sample values
Entry(new_prefix, new_suffix, old_suffix, kind, documentation, detail) ==
  [new_prefix |-> new_prefix, new_suffix |-> new_suffix,
   old_suffix |-> old_suffix, kind |-> kind,
   documentation |-> documentation, detail |-> detail]

Response(old_prefix, results, user_message) ==
  [old_prefix |-> old_prefix, results |-> results, user_message |-> user_message]

PlainEntry == Entry(<<"x">>, <<>>, Some(<<>>), None, None, None)
\* old_suffix missing from the service's JSON.
MalformedEntry == Entry(<<"y">>, <<>>, None, Some(5), None, None)

\* A line longer than the slice completionIsAllowed reads: "b" occurs only
\* beyond column 500.
LongLine ==
  [i \in 1..(LINE_SLICE_END + 2) |-> IF i <= LINE_SLICE_END THEN "a" ELSE "b"]

OptLists(Patterns) ==
  {None} \cup {Some(list) : list \in SeqsUpTo(Patterns, MaxPatterns)}

\* ------------------------------------------------------------ Spec
\* One invocation under every suppression setting and result-count
\* capability, on documents whose windows clamp at neither, one or both ends.
SpecTexts ==
  { << <<"a", "b">> >>,
    << <<"a", "a", "a", "a", "a", "a">> >>,
    << <<"a">>, <<"b", ".">> >>,
    << LongLine >> }

SpecDocuments ==
  {[fileName |-> f, lines |-> t] : f \in {<<"a">>, <<"b">>}, t \in SpecTexts}

SpecConfigurations ==
  {[disable_line_regex |-> l, disable_file_regex |-> f] :
     l \in OptLists({<<"b">>, <<"a", ".">>, <<"*">>}),
     f \in OptLists({<<"b">>, <<"*">>})}

SpecAnswers ==
  { None,
    Some(Response(<<>>, <<>>, None)),
    Some(Response(<<>>, <<PlainEntry>>, None)),
    Some(Response(<<"a", "a">>, <<PlainEntry>>, None)),
    Some(Response(<<>>, <<PlainEntry, MalformedEntry>>, None)) }

Init ==
  InitOver(SpecDocuments, SpecConfigurations,
           SUBSET {"SUGGESTIONS_SINGLE", "SUGGESTIONS_TWO"}, {FALSE})

Next == Invoke(1) \/ Resolve(1, SpecAnswers) \/ Reject(1)

Spec == Init /\ [][Next]_vars

\* ------------------------------------------------------------ what the claims speak of
Issued(p) == inv[p].request # None
Done(p) == inv[p].pc = "done"

\* The text of the cursor's line up to column 500, in the document as the
\* invocation found it.
ObservedLineSlice(p) ==
  LET line == inv[p].observed[inv[p].position.line + 1]
  IN  SubSeq(line, 1, Min(Len(line), LINE_SLICE_END))

\* A pattern matches a text: it compiles and finds a match.
Matches(r, text) == ~RegExpThrows(r) /\ test(r, text)

SomePatternMatches(p) ==
  \/ \E i \in 1..Len(orEmpty(configuration.disable_line_regex)) :
       Matches(orEmpty(configuration.disable_line_regex)[i], ObservedLineSlice(p))
  \/ \E i \in 1..Len(orEmpty(configuration.disable_file_regex)) :
       Matches(orEmpty(configuration.disable_file_regex)[i], document.fileName)

SomePatternInvalid ==
  \/ \E i \in 1..Len(orEmpty(configuration.disable_line_regex)) :
       RegExpThrows(orEmpty(configuration.disable_line_regex)[i])
  \/ \E i \in 1..Len(orEmpty(configuration.disable_file_regex)) :
       RegExpThrows(orEmpty(configuration.disable_file_regex)[i])

\* C1 as stated: the request is issued if and only if no pattern of either
\* list matches, and a suppressed invocation ends with no suggestions.
C1_AsStated ==
  \A p \in Procs :
    inv[p].pc # "idle" =>
      /\ Issued(p) <=> ~SomePatternMatches(p)
      /\ ~Issued(p) => Done(p) /\ inv[p].result = None

\* C1 amended: the request is issued if and only if every pattern of both
\* lists is a valid regular expression and none of them matches (line
\* patterns against columns 0..500 of the cursor's line, file patterns
\* against the path); absent lists count as empty; otherwise the invocation
\* has ended with no suggestions and no request.
C1_RequestIffAllowed ==
  \A p \in Procs :
    inv[p].pc # "idle" =>
      /\ Issued(p) <=> (~SomePatternMatches(p) /\ ~SomePatternInvalid)
      /\ ~Issued(p) => Done(p) /\ inv[p].result = None /\ ~inv[p].answered
      /\ (configuration.disable_line_regex \in {None, Some(<<>>)}
          /\ configuration.disable_file_regex \in {None, Some(<<>>)}) => Issued(p)

\* A line pattern that occurs on the cursor's line only beyond column 500
\* does not suppress the request.
C1_Witness ==
  \E p \in Procs :
    /\ Issued(p)
    /\ configuration.disable_line_regex = Some(<< <<"b">> >>)
    /\ inv[p].observed = << LongLine >>

\* C2: an invocation in which an error was raised has completed, with no
\* suggestions (not the items built before the error) and without the
\* error reaching the caller.
C2_ErrorsAbsorbed ==
  \A p \in Procs :
    inv[p].raised =>
      /\ Done(p)
      /\ inv[p].result = None
      /\ ~inv[p].propagated

\* The second entry of a response fails after the first item was built.
C2_Witness ==
  \E p \in Procs :
    /\ Done(p) /\ inv[p].raised /\ inv[p].answered
    /\ inv[p].response # None
    /\ Len(inv[p].response[1].results) = 2
    /\ ~makeCompletionItemThrows(inv[p].position, inv[p].response[1].old_prefix,
                                 inv[p].response[1].results[1])
    /\ inv[p].few = "false"

\* C7: max_num_results of the request is 1 with the single-result
\* capability (also when two-results is enabled too), 2 with two-results
\* alone, MAX_NUM_RESULTS with neither.
C7_MaxNumResults ==
  \A p \in Procs :
    Issued(p) =>
      LET n == inv[p].request[1].max_num_results
          single == "SUGGESTIONS_SINGLE" \in capabilities
          two == "SUGGESTIONS_TWO" \in capabilities
      IN  /\ single => n = 1
          /\ (two /\ ~single) => n = 2
          /\ (~two /\ ~single) => n = MAX_NUM_RESULTS

C7_Witness ==
  \E p \in Procs :
    /\ Issued(p)
    /\ capabilities = {"SUGGESTIONS_SINGLE", "SUGGESTIONS_TWO"}
    /\ inv[p].request[1].max_num_results = 1

\* The cursor's offset: the length of the text before it.
CursorOffset(p) ==
  LET l == inv[p].position.line
  IN  (IF l = 0 THEN 0 ELSE Len(FullText(SubSeq(inv[p].observed, 1, l))) + 1)
      + inv[p].position.character

\* C8: the window starts at max(0, cursorOffset - CHAR_LIMIT), never below
\* 0, and region_includes_beginning is sent true exactly when it starts at 0.
C8_WindowStart ==
  \A p \in Procs :
    Issued(p) =>
      LET start == inv[p].window[1].before_start_offset
          cursor == CursorOffset(p)
      IN  /\ start = (IF cursor > CHAR_LIMIT THEN cursor - CHAR_LIMIT ELSE 0)
          /\ start >= 0
          /\ inv[p].request[1].region_includes_beginning <=> (start = 0)
          /\ inv[p].request[1].before =
               SubSeq(FullText(inv[p].observed), start + 1, cursor)

\* The cursor is exactly CHAR_LIMIT characters into the document.
C8_Witness ==
  \E p \in Procs :
    /\ Issued(p)
    /\ CursorOffset(p) = CHAR_LIMIT
    /\ inv[p].request[1].region_includes_beginning

\* C9 as stated: region_includes_end is sent true exactly when
\* cursorOffset + CHAR_LIMIT >= the document's length.
C9_ReachesEnd ==
  \A p \in Procs :
    Issued(p) =>
      (inv[p].request[1].region_includes_end
         <=> CursorOffset(p) + CHAR_LIMIT >= Len(FullText(inv[p].observed)))

\* ------------------------------------------------------------ SpecSynth
\* One invocation, no suppression; the responses vary in old_prefix and in
\* the kind, documentation and old_suffix of up to MaxResults candidates.
SynthTexts ==
  { << <<"a", ".", "a">> >>,
    << <<":", ":", "a">> >>,
    << <<":", "a">> >>,
    << <<".">>, <<"a">> >> }

BareString(value) == [isString |-> TRUE, kind |-> None, value |-> value]
TaggedDocumentation(kind, value) ==
  [isString |-> FALSE, kind |-> Some(kind), value |-> value]

SynthEntries ==
  { Entry(<<"p">>, <<>>, Some(<<>>), None, None, None),
    Entry(<<"q">>, <<>>, Some(<<")">>), Some(0), None, None),
    Entry(<<"r">>, <<>>, Some(<<>>), Some(5), None, None),
    Entry(<<"s">>, <<>>, Some(<<>>), None, Some(BareString(<<>>)), None),
    Entry(<<"t">>, <<>>, Some(<<>>), None, Some(BareString(<<"d">>)), None),
    Entry(<<"u">>, <<>>, Some(<<>>), None,
          Some(TaggedDocumentation(MARKDOWN, <<>>)), None),
    Entry(<<"v">>, <<>>, None, None, None, None) }

SynthAnswers ==
  {None} \cup
  {Some(Response(old_prefix, results, None)) :
     old_prefix \in {<<>>, <<"a">>, <<"a", "a">>},
     results \in SeqsUpTo(SynthEntries, MaxResults)}

NoSuppression == [disable_line_regex |-> None, disable_file_regex |-> None]

InitSynth ==
  InitOver({[fileName |-> <<"a">>, lines |-> t] : t \in SynthTexts},
           {NoSuppression}, {{}}, {FALSE})

NextSynth == Invoke(1) \/ Resolve(1, SynthAnswers) \/ Reject(1)

SpecSynth == InitSynth /\ [][NextSynth]_vars

\* An invocation that got a response (not null) and ran to its end.
Responded(p) == Done(p) /\ inv[p].answered /\ inv[p].response # None

\* What C3 says of a returned list: a prefix of the candidates in their
\* order, one item per candidate, 1 item under the collapse decision and
\* all of them otherwise, the item of index 0 preselected and no other.
ListAsClaimed(p) ==
  LET results == inv[p].response[1].results
      items == inv[p].result[1].items
  IN  /\ Len(items) = (IF Len(results) # 0 /\ inv[p].few = "true"
                       THEN 1 ELSE Len(results))
      /\ Len(items) <= Len(results)
      /\ \A i \in 1..Len(items) :
           /\ items[i].filterText = results[i].new_prefix
           /\ items[i].sortText = <<0, i - 1>>
           /\ items[i].preselect <=> (i = 1)

\* Every candidate of the response has the fields its type requires.
WellFormed(response) ==
  \A i \in 1..Len(response.results) : response.results[i].old_suffix # None

\* C3 as stated: every present (well-formed) response yields the list, a
\* prefix of its candidates: 1 item under the collapse decision, all of
\* them otherwise, the first one preselected.
C3_AsStated ==
  \A p \in Procs :
    (Responded(p) /\ WellFormed(inv[p].response[1])) =>
      inv[p].result # None /\ ListAsClaimed(p)

\* C3 amended: for every response, the list the invocation returns is as
\* claimed; an empty candidate list yields an empty list with no error; and
\* a list is returned unless synthesis raises, which it does not when
\* old_prefix is no longer than the cursor's column, every candidate
\* carries old_suffix and the cursor's line exists in the document.
C3_ListIsPrefix ==
  \A p \in Procs :
    Responded(p) =>
      LET response == inv[p].response[1]
      IN  /\ inv[p].result # None => ListAsClaimed(p)
          /\ inv[p].result = None => inv[p].raised
          /\ Len(response.results) = 0 =>
               inv[p].result = Some([items |-> <<>>, isIncomplete |-> TRUE])
          /\ (/\ Len(response.old_prefix) <= inv[p].position.character
              /\ WellFormed(response)
              /\ inv[p].position.line < Len(document.lines))
             => inv[p].result # None

\* Two candidates collapsed to the first.
C3_Witness ==
  \E p \in Procs :
    /\ Responded(p)
    /\ Len(inv[p].response[1].results) = 2
    /\ inv[p].few = "true"
    /\ inv[p].result # None
    /\ Len(inv[p].result[1].items) = 1

\* A candidate carries a kind tag whatever its value; it carries
\* documentation when the field holds an object or a non-empty string.
CarriesKind(entry) == entry.kind # None
CarriesDocumentation(entry) ==
  /\ entry.documentation # None
  /\ entry.documentation[1].isString => entry.documentation[1].value # <<>>

\* The text of the cursor's line before the replacement start; none when
\* old_prefix is longer than the cursor's column.
PrecedingText(p) ==
  LET column == inv[p].position.character - Len(inv[p].response[1].old_prefix)
      line == inv[p].observed[inv[p].position.line + 1]
  IN  IF column < 0 THEN None ELSE Some(SubSeq(line, 1, column))

\* C4 as stated: showFew returns true exactly when every candidate lacks
\* both a kind tag and documentation and the preceding text ends with "."
\* or "::", and returns false whenever some candidate carries either.
C4_AsStated ==
  \A p \in Procs :
    (Responded(p) /\ Len(inv[p].response[1].results) # 0) =>
      LET results == inv[p].response[1].results
          decorated == \E i \in 1..Len(results) :
                         CarriesKind(results[i]) \/ CarriesDocumentation(results[i])
          before == PrecedingText(p)
          memberAccess == /\ before # None
                          /\ \/ endsWith(before[1], <<".">>)
                             \/ endsWith(before[1], <<":", ":">>)
      IN  /\ inv[p].few = "true" <=> (~decorated /\ memberAccess)
          /\ decorated => inv[p].few = "false"

\* ------------------------------------------------------------ SpecDetail
\* One invocation, one candidate; the response's user_message and the
\* candidate's own detail vary, and so do the onboarding marker and the
\* auto-import command.
DetailMessages == {<<>>, <<"m">>, <<"n">>, PROJECT_NOTICE}

DetailAnswers ==
  {Some(Response(<<>>,
                 <<Entry(<<"p">>, <<>>, Some(<<>>), Some(5), None, detail)>>,
                 user_message)) :
     detail \in {None, Some(<<>>), Some(<<"o", "w", "n">>)},
     user_message \in {None} \cup
       {Some(list) : list \in SeqsUpTo(DetailMessages, MaxMessages)}}

InitDetail ==
  InitOver({[fileName |-> <<"a">>, lines |-> << <<"a", ".", "a">> >>]},
           {NoSuppression}, SUBSET {"ON_BOARDING_CAPABILITY"}, BOOLEAN)

NextDetail == Invoke(1) \/ Resolve(1, DetailAnswers) \/ Reject(1)

SpecDetail == InitDetail /\ [][NextDetail]_vars

RECURSIVE JoinedByNewline(_)
\* A non-empty list of strings with one "\n" between each adjacent pair.
JoinedByNewline(list) ==
  IF Len(list) = 1 THEN list[1]
  ELSE JoinedByNewline(SubSeq(list, 1, Len(list) - 1)) \o <<NL>> \o list[Len(list)]

\* C5 as stated: the aggregated detail message is the advisory strings
\* joined by newlines, one between each adjacent pair, and the default
\* string only when the response carries no advisory string.
C5_AsStated ==
  \A p \in Procs :
    (Responded(p) /\ inv[p].detailMessage # None) =>
      LET list == orEmpty(inv[p].response[1].user_message)
      IN  inv[p].detailMessage[1] =
            (IF Len(list) = 0 THEN DEFAULT_DETAIL ELSE JoinedByNewline(list))

\* ------------------------------------------------------------ SpecEscape
\* One invocation, one candidate; its new_prefix and new_suffix range over
\* the short strings of "x" and "$", and the spec's example a$b$c.
EscapeTexts ==
  SeqsUpTo({"x", DOLLAR}, MaxText)
    \cup {<<"a", DOLLAR, "b", DOLLAR, "c">>}

EscapeAnswers ==
  {Some(Response(<<>>,
                 <<Entry(new_prefix, new_suffix, Some(<<>>), Some(5), None, None)>>,
                 None)) :
     new_prefix \in EscapeTexts, new_suffix \in EscapeTexts}

InitEscape ==
  InitOver({[fileName |-> <<"a">>, lines |-> << <<"a">> >>]},
           {NoSuppression}, {{}}, {FALSE})

NextEscape == Invoke(1) \/ Resolve(1, EscapeAnswers) \/ Reject(1)

SpecEscape == InitEscape /\ [][NextEscape]_vars

RECURSIVE EscapedOnce(_)
\* text with every "$" preceded by one "\" and nothing else changed.
EscapedOnce(text) ==
  IF text = <<>> THEN <<>>
  ELSE LET last == text[Len(text)]
       IN  EscapedOnce(SubSeq(text, 1, Len(text) - 1))
             \o (IF last = DOLLAR THEN <<BACKSLASH, DOLLAR>> ELSE <<last>>)

\* C6 as stated: the snippet body embeds new_prefix escaped exactly once
\* and, after the $0 tab stop, new_suffix escaped exactly once.
C6_AsStated ==
  \A p \in Procs :
    (Responded(p) /\ inv[p].result # None) =>
      \A i \in 1..Len(inv[p].result[1].items) :
        LET entry == inv[p].response[1].results[i]
        IN  inv[p].result[1].items[i].insertText =
              EscapedOnce(entry.new_prefix)
                \o (IF entry.new_suffix = <<>> THEN <<>>
                    ELSE <<DOLLAR, "0">> \o EscapedOnce(entry.new_suffix))

\* ------------------------------------------------------------ SpecConc
\* Overlapping invocations while the user keeps editing.
ConcTexts ==
  { << <<"a", ".">> >>,
    << <<"a", "b">> >>,
    << <<"a">>, <<".">> >> }

ConcAnswers ==
  { None,
    Some(Response(<<>>,
                  << Entry(<<"p">>, <<>>, Some(<<>>), None, None, None),
                     Entry(<<"q">>, <<>>, Some(<<>>), None, None, None) >>,
                  None)),
    Some(Response(<<>>,
                  << Entry(<<"r">>, <<>>, Some(<<>>), Some(5), None, None) >>,
                  None)) }

InitConc ==
  InitOver({[fileName |-> <<"a">>, lines |-> t] : t \in ConcTexts},
           {NoSuppression}, {{}}, {FALSE})

NextConc ==
  \/ \E p \in Procs : Invoke(p) \/ Resolve(p, ConcAnswers) \/ Reject(p)
  \/ Edit(ConcTexts)

SpecConc == InitConc /\ [][NextConc]_vars

\* C10 as stated: whatever is edited and whichever invocation runs while
\* the call is in flight, the collapse decision and the result are those
\* that the text the invocation observed before the call gives with its
\* response, and where that is a list, a list is returned.
C10_AsStated ==
  \A p \in Procs :
    (Responded(p) /\ Len(inv[p].response[1].results) # 0) =>
      LET expected == tryCatch(afterResponse(inv[p].response, inv[p].observed,
                                             inv[p].position, capabilities,
                                             isTabNineAutoImportEnabled))
      IN  /\ inv[p].few = showFew(inv[p].response[1], inv[p].observed,
                                  inv[p].position)
          /\ inv[p].result = expected.result

====
